---- MODULE Spec2Model ----
(***************************************************************************)
(* Crash game server (script.js): the round scheduler (startNewGame, the   *)
(* 100 ms tick interval, the 30 s timeout, endGame and the 5 s restart),   *)
(* the betting endpoints (/api/register, /api/place-bet, /api/cash-out)    *)
(* and the socket handlers, as one state machine.                          *)
(*                                                                         *)
(* Units.  Time is in milliseconds since the process started.  Multipliers *)
(* and crash points are in thousandths (1.005x is 1005); stakes are whole  *)
(* currency units; balances, payouts and profits are in thousandths of a   *)
(* currency unit, so that stake * multiplier is exact.                     *)
(*                                                                         *)
(* Node runs every handler to completion on one thread, so each handler is *)
(* one atomic action.  Timers fire in deadline order at their deadline;    *)
(* timers due at the same instant fire in any order, and a request may be  *)
(* served at any instant, before or after the timers due at that instant.  *)
(***************************************************************************)
EXTENDS Integers, Sequences, FiniteSets, TLC

VARIABLES
    now,            \* Date.now()
    users,          \* users: username -> account
    activeGames,    \* activeGames: gameId -> game object (never deleted)
    gameState,      \* the global gameState: 0 is the object of lines 27-34, else a gameId
    gameHistory,    \* gameHistory
    onlineUsers,    \* onlineUsers: socketId -> username
    timers,         \* pending setTimeout / setInterval callbacks
    emitted,        \* the events the last handler emitted, in order
    lastOp,         \* the last handler run and what it answered
    env,            \* the environment: draws, names, stakes, rounds started, rounds named (fixed in Init)
    betsLeft        \* bets the environment may still place (the bound of the model)

vars == <<now, users, activeGames, gameState, gameHistory, onlineUsers,
          timers, emitted, lastOp, env, betsLeft>>

----------------------------------------------------------------------------
(* Bounds of the model *)

MaxRounds == 2          \* rounds started
MaxBets == 2            \* bets accepted by /api/place-bet, over all rounds

Sockets == {"s1"}        \* sockets that connect
JoinNames == {"ann"}     \* the username a user_join message may carry

----------------------------------------------------------------------------
(* Program constants *)

InitialBalance == 1000      \* line 176
MinBet == 10                \* line 232
TickMs == 100               \* line 102
MaxRoundMs == 30000         \* line 109
RestartMs == 5000           \* line 156
FirstStartMs == 1000        \* line 387
GrowthPerSec == 50          \* line 88: 0.05 per second, in thousandths
HistoryCap == 100           \* lines 138-139
HistoryPage == 20           \* line 335
MinCrash == 101             \* line 47: 1.01, in hundredths
MaxCrash == 10000           \* line 47: 100, in hundredths
Milli == 1000               \* thousandths per unit
Half == 65536               \* 2^16: a 32-bit draw h is <<h \div 2^16, h % 2^16>>

Null == 0                   \* null (autoCashout || null maps every falsy value to it)

\* NaN, the number a missing amount (undefined) is converted to by <, - and *;
\* a value no number of the model takes
NaN == -999999999

\* a < b, a - b, a + b and a * b on JavaScript numbers: a comparison with NaN is
\* false, arithmetic on NaN gives NaN
Less(a, b) == a # NaN /\ b # NaN /\ a < b
Minus(a, b) == IF a = NaN \/ b = NaN THEN NaN ELSE a - b
Plus(a, b) == IF a = NaN \/ b = NaN THEN NaN ELSE a + b
Times(a, b) == IF a = NaN \/ b = NaN THEN NaN ELSE a * b

----------------------------------------------------------------------------
(* generateCrashPoint, lines 42-48 *)

\* q * (E - h) <= 100 * E - h with E = 2^32, i.e. (q - 100) * E <= (q - 1) * h,
\* on 16-bit halves so that no product leaves 31 bits (q <= MaxCrash).
QuotientAtLeast(h, q) ==
    (q - 1) * h[1] + ((q - 1) * h[2]) \div Half >= (q - 100) * Half

\* the largest q in lo..hi with QuotientAtLeast(h, q); QuotientAtLeast(h, lo) holds
RECURSIVE FloorSearch(_, _, _)
FloorSearch(h, lo, hi) ==
    IF lo = hi THEN lo
    ELSE LET mid == (lo + hi + 1) \div 2
         IN  IF QuotientAtLeast(h, mid) THEN FloorSearch(h, mid, hi)
             ELSE FloorSearch(h, lo, mid - 1)

\* min(floor((100 * e - h) / (e - h)), 100 * 100): the quotient in hundredths,
\* cut at the upper clamp (a larger quotient is clamped to 100 anyway)
RawCrashHundredths(h) == FloorSearch(h, 100, MaxCrash)

Max2(a, b) == IF a >= b THEN a ELSE b
Min2(a, b) == IF a <= b THEN a ELSE b

\* Math.max(1.01, Math.min(crashPoint, 100)), in thousandths
generateCrashPointUnclamped(h) == 10 * RawCrashHundredths(h)
generateCrashPoint(h) ==
    10 * Max2(MinCrash, Min2(RawCrashHundredths(h), MaxCrash))

\* draws: h = 0 gives 1.00 -> 1.01; h = 85049450 gives 1.02; h = 2872887824 gives 3.00
DrawLow == <<0, 0>>
DrawMid == <<1297, 49258>>
DrawHigh == <<43836, 51728>>

\* draws at the edges of the clamp: h = 42949673 is the least draw whose quotient
\* is 1.01 (below it the quotient is 1.00); h = 4252442867 gives 99.99 and is the
\* greatest draw under the cap; h = 4252447120 gives 100.01; h = 2^32 - 1
DrawFirst == <<655, 23593>>
DrawUnderCap == <<64887, 8435>>
DrawOverCap == <<64887, 12688>>
DrawMax == <<65535, 65535>>

----------------------------------------------------------------------------
(* The multiplier clock and number formatting *)

\* line 87-88: 1.0 + ((Date.now() - startTime) / 1000) * 0.05, in thousandths
\* (exact: every tick runs a multiple of TickMs after the start)
MultiplierAt(elapsed) == Milli + (elapsed * GrowthPerSec) \div Milli

\* line 91: the crash test of the tick
CrashReachedStrict(m, cp) == m > cp
CrashReached(m, cp) == m >= cp

\* ticks k (elapsed = k * TickMs) whose multiplier 1 + 0.005 k, as an IEEE double,
\* lies below the decimal tie x.xx5, so that toFixed(2) rounds it down
TieDown ==
    {1, 3, 5, 7, 9, 11, 13, 15, 17, 19, 21, 23, 51, 55, 59, 61, 63, 65, 67, 69,
     71, 73, 97, 101, 105, 109, 113, 117, 121, 147, 151, 155, 159, 163, 167,
     169, 171, 189, 197, 201, 209, 217, 219, 227, 235, 243, 251, 259, 267, 269,
     277, 285, 293}

\* Number.prototype.toFixed(2) of a multiplier, in hundredths
toFixed2(m) ==
    IF m % 10 = 0 THEN m \div 10
    ELSE IF m % 10 = 5 /\ ((m - Milli) \div 5) \in TieDown THEN m \div 10
    ELSE (m + 5) \div 10

----------------------------------------------------------------------------
(* State *)

\* the object gameState is bound to at load time, lines 27-34
InitialGameState ==
    [id |-> 0, isRunning |-> FALSE, multiplier |-> Milli, crashPoint |-> Null,
     startTime |-> Null, endTime |-> Null, players |-> <<>>]

\* the object the global gameState refers to (the same object as activeGames[id])
CurrentGame == IF gameState = 0 THEN InitialGameState ELSE activeGames[gameState]

GameIds == DOMAIN activeGames

Op(op, user, gameId, amount, auto, result) ==
    [op |-> op, user |-> user, gameId |-> gameId, amount |-> amount,
     auto |-> auto, result |-> result]

TimerOp(op, gameId) == Op(op, "", gameId, 0, Null, "")

\* a window wide enough for requests to name every round ever started
AllRounds == HistoryCap + MaxRounds + 1

InitWith(drawSet, nameSet, amountSet, autoSet, nBets, nRounds, nRecent) ==
    /\ now = 0
    /\ users = <<>>
    /\ activeGames = <<>>
    /\ gameState = 0
    /\ gameHistory = <<>>
    /\ onlineUsers = <<>>
    /\ timers = {[kind |-> "start", gameId |-> 0, at |-> FirstStartMs]}
    /\ emitted = <<>>
    /\ lastOp = TimerOp("load", 0)
    /\ env = [draws |-> drawSet, names |-> nameSet, amounts |-> amountSet,
              autos |-> autoSet, rounds |-> nRounds, recent |-> nRecent]
    /\ betsLeft = nBets

\* one account betting and cashing out in rounds that crash at 1.02
Init == InitWith({DrawMid}, {"ann"}, {10}, {Null}, MaxBets, MaxRounds, AllRounds)

\* two accounts betting and cashing out in rounds that crash at 1.01
InitPair == InitWith({DrawLow}, {"ann", "bob"}, {10}, {Null}, MaxBets, MaxRounds - 1, AllRounds)

\* rounds that crash at 1.01 or run to the 30 s timeout (crash point 3.00);
\* the only stake sent is below the minimum, so no bet is accepted
InitCeiling == InitWith({DrawLow, DrawHigh}, {"ann"}, {5}, {Null}, MaxBets, MaxRounds, AllRounds)

\* one round fewer, for the runs that check that every round ends
InitFair == InitWith({DrawLow, DrawHigh}, {"ann"}, {5}, {Null}, MaxBets, MaxRounds - 1, AllRounds)

\* enough rounds, all crashing at 1.01, to fill the history past its capacity;
\* requests name the round started last
InitHistory == InitWith({DrawLow}, {"ann"}, {5}, {Null}, MaxBets, HistoryCap + MaxRounds, 1)

\* one round on each of the draws at the edges of the clamp and between them
InitDraws ==
    InitWith({DrawLow, DrawFirst, DrawMid, DrawHigh, DrawUnderCap, DrawOverCap, DrawMax},
             {"ann"}, {5}, {Null}, MaxBets, MaxRounds - 1, AllRounds)

\* rounds that crash at 1.01 or 1.02, one after the other
InitCycle == InitWith({DrawLow, DrawMid}, {"ann"}, {5}, {Null}, MaxBets, MaxRounds, AllRounds)

\* requests that carry no amount, next to bets of 10
InitMalformed == InitWith({DrawMid}, {"ann"}, {10, NaN}, {Null}, MaxBets, MaxRounds, AllRounds)

\* one bet, placed and cashed out at any tick of a round that crashes at 1.01 or
\* runs to the 30 s timeout
InitEvents ==
    InitWith({DrawLow, DrawHigh}, {"ann"}, {10}, {Null}, MaxBets - 1, MaxRounds - 1, AllRounds)

\* stakes below the minimum, and a stake that leaves a balance below the minimum
InitStakes == InitWith({DrawMid}, {"ann"}, {5, 997}, {Null}, MaxBets, MaxRounds, AllRounds)

\* bets that name an auto-cash-out threshold of 1.01, in rounds that crash at 1.01 or 1.02
InitAuto == InitWith({DrawLow, DrawMid}, {"ann"}, {10}, {Null, 1010}, MaxBets, MaxRounds, AllRounds)

----------------------------------------------------------------------------
(* endGame, lines 113-157 *)

\* lines 114-115: if (!game || !game.isRunning) return
EndGameRunsUnguarded(games, gameId) == gameId \in DOMAIN games
EndGameRuns(games, gameId) == gameId \in DOMAIN games /\ games[gameId].isRunning

\* lines 121-129: the forEach body over game.players
SettlePlayer(game, player) ==
    IF player.cashedOut /\ player.cashOutMultiplier < game.multiplier
    THEN [player EXCEPT !.won = TRUE,
                        !.profit = Times(player.bet, player.cashOutMultiplier)]
    ELSE IF ~player.cashedOut
    THEN [player EXCEPT !.won = FALSE, !.profit = Minus(0, Times(player.bet, Milli))]
    ELSE player

\* lines 117-129: the game object after endGame
EndedGame(game) ==
    [game EXCEPT !.isRunning = FALSE, !.endTime = now,
                 !.players = [i \in DOMAIN game.players |->
                                 SettlePlayer(game, game.players[i])]]

\* lines 132-135: the record pushed on gameHistory, {...game, players: length}
HistoryRecord(game) == [game EXCEPT !.players = Len(game.players)]

\* lines 138-140: gameHistory.slice(-100) when longer than 100
TrimHistoryNewest(h) ==
    IF Len(h) > HistoryCap THEN SubSeq(h, 1, HistoryCap) ELSE h
TrimHistory(h) ==
    IF Len(h) > HistoryCap THEN SubSeq(h, Len(h) - HistoryCap + 1, Len(h)) ELSE h

\* lines 145-151: the game_end event
GameEndEvent(gameId, game) ==
    [type |-> "game_end", gameId |-> gameId,
     finalMultiplier |-> toFixed2(game.multiplier),
     crashPoint |-> game.crashPoint, players |-> game.players,
     winners |-> Cardinality({i \in DOMAIN game.players : game.players[i].won})]

\* activeGames after endGame(gameId) run on `games`
GamesAfterEnd(games, gameId) ==
    IF EndGameRuns(games, gameId)
    THEN [games EXCEPT ![gameId] = EndedGame(games[gameId])]
    ELSE games

HistoryAfterEnd(games, gameId) ==
    IF EndGameRuns(games, gameId)
    THEN TrimHistory(Append(gameHistory, HistoryRecord(EndedGame(games[gameId]))))
    ELSE gameHistory

EventsOfEndSilent(games, gameId) == <<>>
EventsOfEnd(games, gameId) ==
    IF EndGameRuns(games, gameId)
    THEN <<GameEndEvent(gameId, EndedGame(games[gameId]))>>
    ELSE <<>>

\* lines 154-156: the restart timeout
TimersOfEndNone(games, gameId) == {}
TimersOfEnd(games, gameId) ==
    IF EndGameRuns(games, gameId)
    THEN {[kind |-> "start", gameId |-> gameId, at |-> now + RestartMs]}
    ELSE {}

----------------------------------------------------------------------------
(* Timers *)

Due(t) == t \in timers /\ t.at <= now

\* line 52: if (gameState.isRunning) return
StartBlocked == CurrentGame.isRunning

\* the bound of the model: once env.rounds rounds were started, the timeout that
\* would start the next one is held back (it stays pending)
Held(t) == t.kind = "start" /\ ~StartBlocked /\ Cardinality(GameIds) >= env.rounds

Later == {t.at : t \in {x \in timers : x.at > now}}

\* the event loop sleeps until the earliest deadline
Advance ==
    /\ Later # {}
    /\ \A t \in timers : t.at > now \/ Held(t)
    /\ now' = CHOOSE d \in Later : \A e \in Later : d <= e
    /\ emitted' = <<>>
    /\ lastOp' = TimerOp("advance", 0)
    /\ UNCHANGED <<users, activeGames, gameState, gameHistory, onlineUsers,
                   timers, env, betsLeft>>

\* lines 73-77: the game_start event
GameStartEvent(gameId, crashPoint) ==
    [type |-> "game_start", gameId |-> gameId, crashPoint |-> crashPoint,
     startTime |-> now]

\* lines 57-66: the object gameState is rebound to
NewGame(gameId, crashPoint) ==
    [id |-> gameId, isRunning |-> TRUE, multiplier |-> Milli,
     crashPoint |-> crashPoint, startTime |-> now, endTime |-> Null,
     players |-> <<>>]

\* startNewGame, lines 51-110, called by the timeouts of lines 154-156 and 385-387
StartNewGame(t) ==
    /\ Due(t) /\ t.kind = "start"
    /\ IF StartBlocked
       THEN /\ timers' = timers \ {t}
            /\ emitted' = <<>>
            /\ UNCHANGED <<activeGames, gameState>>
       ELSE /\ ~Held(t)
            /\ \E h \in env.draws :
                 LET gameId == Cardinality(GameIds) + 1
                     crashPoint == generateCrashPoint(h)
                 IN  /\ activeGames' = activeGames @@ (gameId :> NewGame(gameId, crashPoint))
                     /\ gameState' = gameId
                     /\ emitted' = <<GameStartEvent(gameId, crashPoint)>>
                     /\ timers' = (timers \ {t}) \cup
                           {[kind |-> "tick", gameId |-> gameId, at |-> now + TickMs],
                            [kind |-> "ceiling", gameId |-> gameId, at |-> now + MaxRoundMs]}
    /\ lastOp' = TimerOp("start", t.gameId)
    /\ UNCHANGED <<now, users, gameHistory, onlineUsers, env, betsLeft>>

\* lines 96-100: the game_update event
GameUpdateEvent(gameId, multiplier, elapsed) ==
    [type |-> "game_update", gameId |-> gameId, multiplier |-> toFixed2(multiplier),
     timeElapsed |-> elapsed \div TickMs]

\* lines 92 and 107: endGame(gameId), with the gameId of the startNewGame call
\* that created the timer (not the identifier of the round that is running)
EndGameTargetCurrent(t) == gameState
EndGameTarget(t) == t.gameId

\* the setInterval callback of lines 80-102, created for round t.gameId
Tick(t) ==
    /\ Due(t) /\ t.kind = "tick"
    /\ IF ~CurrentGame.isRunning
       THEN /\ timers' = timers \ {t}
            /\ emitted' = <<>>
            /\ UNCHANGED <<activeGames, gameHistory>>
       ELSE LET elapsed == now - CurrentGame.startTime
                m == MultiplierAt(elapsed)
                games == [activeGames EXCEPT ![gameState].multiplier = m]
            IN  IF CrashReached(m, CurrentGame.crashPoint)
                THEN /\ activeGames' = GamesAfterEnd(games, EndGameTarget(t))
                     /\ gameHistory' = HistoryAfterEnd(games, EndGameTarget(t))
                     /\ emitted' = EventsOfEnd(games, EndGameTarget(t))
                     /\ timers' = (timers \ {t}) \cup TimersOfEnd(games, EndGameTarget(t))
                ELSE /\ activeGames' = games
                     /\ gameHistory' = gameHistory
                     /\ emitted' = <<GameUpdateEvent(t.gameId, m, elapsed)>>
                     /\ timers' = (timers \ {t}) \cup {[t EXCEPT !.at = t.at + TickMs]}
    /\ lastOp' = TimerOp("tick", t.gameId)
    /\ UNCHANGED <<now, users, gameState, onlineUsers, env, betsLeft>>

\* line 106: if (gameState.isRunning)
CeilingEndsNever == FALSE
CeilingEnds == CurrentGame.isRunning

\* the setTimeout callback of lines 105-109, created for round t.gameId
Ceiling(t) ==
    /\ Due(t) /\ t.kind = "ceiling"
    /\ timers' = (timers \ {t}) \cup
          (IF CeilingEnds THEN TimersOfEnd(activeGames, EndGameTarget(t)) ELSE {})
    /\ activeGames' =
          IF CeilingEnds THEN GamesAfterEnd(activeGames, EndGameTarget(t)) ELSE activeGames
    /\ gameHistory' =
          IF CeilingEnds THEN HistoryAfterEnd(activeGames, EndGameTarget(t)) ELSE gameHistory
    /\ emitted' =
          IF CeilingEnds THEN EventsOfEnd(activeGames, EndGameTarget(t)) ELSE <<>>
    /\ lastOp' = TimerOp("ceiling", t.gameId)
    /\ UNCHANGED <<now, users, gameState, onlineUsers, env, betsLeft>>

----------------------------------------------------------------------------
(* HTTP endpoints *)

\* lines 172-181: the account created by /api/register
NewUser ==
    [balance |-> InitialBalance * Milli, gamesPlayed |-> 0, gamesWon |-> 0,
     totalProfit |-> 0]

\* app.post('/api/register'), lines 160-191
Register(username) ==
    /\ IF username \in DOMAIN users
       THEN /\ users' = users
            /\ lastOp' = Op("register", username, 0, 0, Null, "UserExists")
       ELSE /\ users' = users @@ (username :> NewUser)
            /\ lastOp' = Op("register", username, 0, 0, Null, "ok")
    /\ emitted' = <<>>
    /\ UNCHANGED <<now, activeGames, gameState, gameHistory, onlineUsers, timers, env, betsLeft>>

\* lines 220-234: the checks of /api/place-bet, in the order the handler makes them
PlaceBetAcceptsSmall(username, gameId, amount) ==
    IF username \notin DOMAIN users THEN "UserNotFound"
    ELSE IF gameId \notin GameIds \/ ~activeGames[gameId].isRunning THEN "GameNotActive"
    ELSE IF Less(users[username].balance, Times(amount, Milli)) THEN "InsufficientFunds"
    ELSE "ok"
PlaceBetAcceptsEnded(username, gameId, amount) ==
    IF username \notin DOMAIN users THEN "UserNotFound"
    ELSE IF gameId \notin GameIds THEN "GameNotActive"
    ELSE IF Less(users[username].balance, Times(amount, Milli)) THEN "InsufficientFunds"
    ELSE IF Less(amount, MinBet) THEN "BelowMinimum"
    ELSE "ok"
PlaceBetError(username, gameId, amount) ==
    IF username \notin DOMAIN users THEN "UserNotFound"
    ELSE IF gameId \notin GameIds \/ ~activeGames[gameId].isRunning THEN "GameNotActive"
    ELSE IF Less(users[username].balance, Times(amount, Milli)) THEN "InsufficientFunds"
    ELSE IF Less(amount, MinBet) THEN "BelowMinimum"
    ELSE "ok"

\* lines 241-250: the player pushed on game.players
NewPlayer(username, amount, autoCashout) ==
    [username |-> username, bet |-> amount, cashOutMultiplier |-> autoCashout,
     cashedOut |-> FALSE, won |-> FALSE, profit |-> 0]

\* lines 255-262: the new_bet event
NewBetEvent(gameId, username, amount, autoCashout) ==
    [type |-> "new_bet", gameId |-> gameId, username |-> username,
     amount |-> amount, autoCashout |-> autoCashout]

\* app.post('/api/place-bet'), lines 214-269
PlaceBet(username, gameId, amount, autoCashout) ==
    /\ lastOp' = Op("placeBet", username, gameId, amount, autoCashout,
                    PlaceBetError(username, gameId, amount))
    /\ IF PlaceBetError(username, gameId, amount) = "ok"
       THEN /\ betsLeft > 0
            /\ betsLeft' = betsLeft - 1
            /\ users' = [users EXCEPT ![username].balance = Minus(@, Times(amount, Milli)),
                                        ![username].gamesPlayed = @ + 1]
            /\ activeGames' = [activeGames EXCEPT ![gameId].players =
                     Append(@, NewPlayer(username, amount, autoCashout))]
            /\ emitted' = <<NewBetEvent(gameId, username, amount, autoCashout)>>
       ELSE /\ emitted' = <<>>
            /\ UNCHANGED <<users, activeGames, betsLeft>>
    /\ UNCHANGED <<now, gameState, gameHistory, onlineUsers, timers, env>>

\* line 282: game.players.find(p => p.username === username && !p.cashedOut):
\* the indices of the players that match (find takes the first)
OpenBets(game, username) ==
    {i \in DOMAIN game.players :
        game.players[i].username = username /\ ~game.players[i].cashedOut}

FirstOf(S) == CHOOSE i \in S : \A j \in S : i <= j

\* lines 277-286: the checks of /api/cash-out
CashOutErrorAnyRound(username, gameId) ==
    IF username \notin DOMAIN users \/ gameId \notin GameIds THEN "Unavailable"
    ELSE IF OpenBets(activeGames[gameId], username) = {} THEN "NoOpenBet"
    ELSE "ok"
CashOutError(username, gameId) ==
    IF username \notin DOMAIN users \/ gameId \notin GameIds
       \/ ~activeGames[gameId].isRunning THEN "Unavailable"
    ELSE IF OpenBets(activeGames[gameId], username) = {} THEN "NoOpenBet"
    ELSE "ok"

\* line 289: winAmount
WinAmountFlat(bet, multiplier) == Times(bet, Milli)
WinAmount(bet, multiplier) == Times(bet, multiplier)

\* lines 298-301: the player after a cash-out
CashedOutPlayer(player, multiplier) ==
    [player EXCEPT !.cashedOut = TRUE, !.cashOutMultiplier = multiplier,
                   !.won = TRUE,
                   !.profit = Minus(WinAmount(player.bet, multiplier),
                                    Times(player.bet, Milli))]

\* lines 304-311: the cash_out event
CashOutEvent(gameId, username, multiplier, amount) ==
    [type |-> "cash_out", gameId |-> gameId, username |-> username,
     multiplier |-> toFixed2(multiplier), amount |-> amount]

\* app.post('/api/cash-out'), lines 271-319
CashOut(username, gameId) ==
    /\ lastOp' = Op("cashOut", username, gameId, 0, Null, CashOutError(username, gameId))
    /\ IF CashOutError(username, gameId) = "ok"
       THEN LET game == activeGames[gameId]
                i == FirstOf(OpenBets(game, username))
                player == game.players[i]
                winAmount == WinAmount(player.bet, game.multiplier)
            IN  /\ users' = [users EXCEPT
                       ![username].balance = Plus(@, winAmount),
                       ![username].totalProfit =
                           Plus(@, Minus(winAmount, Times(player.bet, Milli))),
                       ![username].gamesWon =
                           IF Less(Times(player.bet, Milli), winAmount) THEN @ + 1 ELSE @]
                /\ activeGames' = [activeGames EXCEPT ![gameId].players[i] =
                       CashedOutPlayer(player, game.multiplier)]
                /\ emitted' = <<CashOutEvent(gameId, username, game.multiplier, winAmount)>>
       ELSE /\ emitted' = <<>>
            /\ UNCHANGED <<users, activeGames>>
    /\ UNCHANGED <<now, gameState, gameHistory, onlineUsers, timers, env, betsLeft>>

\* app.get('/api/game-history'), lines 334-336: gameHistory.slice(-20).reverse()
GameHistoryResponse ==
    LET n == Min2(Len(gameHistory), HistoryPage)
    IN  [i \in 1..n |-> gameHistory[Len(gameHistory) + 1 - i]]

----------------------------------------------------------------------------
(* Socket handlers *)

\* lines 367-370: the online_update event
OnlineUpdateEvent(online) ==
    [type |-> "online_update", count |-> Cardinality(DOMAIN online),
     users |-> {online[k] : k \in DOMAIN online}]

\* line 361: Object.values(activeGames).find(game => game.isRunning)
RunningGames == {g \in GameIds : activeGames[g].isRunning}

\* lines 362-364: socket.emit('game_state', currentGame), the whole game object
GameStateEvents(socket) ==
    IF RunningGames = {} THEN <<>>
    ELSE <<[type |-> "game_state", socket |-> socket,
            game |-> activeGames[FirstOf(RunningGames)]]>>

\* socket.on('user_join'), lines 353-371
UserJoin(socket, username) ==
    /\ onlineUsers' = [k \in DOMAIN onlineUsers \cup {socket} |->
                          IF k = socket THEN username ELSE onlineUsers[k]]
    /\ emitted' = GameStateEvents(socket) \o <<OnlineUpdateEvent(onlineUsers')>>
    /\ lastOp' = Op("user_join", username, 0, 0, Null, socket)
    /\ UNCHANGED <<now, users, activeGames, gameState, gameHistory, timers, env, betsLeft>>

\* socket.on('disconnect'), lines 374-381
Disconnect(socket) ==
    /\ onlineUsers' = [k \in DOMAIN onlineUsers \ {socket} |-> onlineUsers[k]]
    /\ emitted' = <<OnlineUpdateEvent(onlineUsers')>>
    /\ lastOp' = Op("disconnect", "", 0, 0, Null, socket)
    /\ UNCHANGED <<now, users, activeGames, gameState, gameHistory, timers, env, betsLeft>>

----------------------------------------------------------------------------
(* Specifications *)

\* the identifiers a request may name: the env.recent rounds started last, and
\* 0, an identifier of no game
RequestGameIds == {g \in GameIds : g > Cardinality(GameIds) - env.recent} \cup {0}

Next ==
    \/ Advance
    \/ \E t \in timers : StartNewGame(t)
    \/ \E t \in timers : Tick(t)
    \/ \E t \in timers : Ceiling(t)
    \/ \E u \in env.names : Register(u)
    \/ \E u \in env.names, g \in RequestGameIds, a \in env.amounts, c \in env.autos :
          PlaceBet(u, g, a, c)
    \/ \E u \in env.names, g \in RequestGameIds : CashOut(u, g)
    \/ \E s \in Sockets, u \in JoinNames : UserJoin(s, u)
    \/ \E s \in Sockets : Disconnect(s)

Spec == Init /\ [][Next]_vars

SpecPair == InitPair /\ [][Next]_vars

SpecCeiling == InitCeiling /\ [][Next]_vars

SpecStakes == InitStakes /\ [][Next]_vars

SpecAuto == InitAuto /\ [][Next]_vars

SpecHistory == InitHistory /\ [][Next]_vars

SpecDraws == InitDraws /\ [][Next]_vars

SpecMalformed == InitMalformed /\ [][Next]_vars

SpecEvents == InitEvents /\ [][Next]_vars

\* the event loop: it sleeps until the next deadline and runs every callback due
Clock ==
    \/ Advance
    \/ \E t \in timers : StartNewGame(t) \/ Tick(t) \/ Ceiling(t)

\* the event loop never stops serving timers
FairCeiling == InitFair /\ [][Next]_vars /\ WF_vars(Clock)

FairCycle == InitCycle /\ [][Next]_vars /\ WF_vars(Clock)

----------------------------------------------------------------------------
(* Claims *)

Players(g) == activeGames[g].players

\* C1: every successful cash-out is served while its round is running, at a
\* multiplier strictly below that round's crash point; so every cashed-out bet
\* of every round records a cash-out multiplier below the crash point.
CashOutBelowCrashPoint ==
    /\ \A g \in GameIds : \A i \in DOMAIN Players(g) :
          Players(g)[i].cashedOut =>
              Players(g)[i].cashOutMultiplier < activeGames[g].crashPoint
    /\ (lastOp.op = "cashOut" /\ lastOp.result = "ok") =>
          /\ activeGames[lastOp.gameId].isRunning
          /\ activeGames[lastOp.gameId].multiplier < activeGames[lastOp.gameId].crashPoint

\* a bet cashed out at 1.015, after the last tick before the crash at 1.02
CashedOutAtLastTick ==
    \E g \in GameIds : \E i \in DOMAIN Players(g) :
        /\ Players(g)[i].cashedOut
        /\ Players(g)[i].cashOutMultiplier = 1015
        /\ activeGames[g].crashPoint = 1020
        /\ ~activeGames[g].isRunning

\* C2: of two cash-out requests of one account for one round exactly one
\* succeeds: the cash-out that succeeds leaves the account no open bet in that
\* round, so the other one answers NoOpenBet and nothing is paid twice.
CashOutLeavesNoOpenBet ==
    (lastOp.op = "cashOut" /\ lastOp.result = "ok") =>
        OpenBets(activeGames[lastOp.gameId], lastOp.user) = {}

\* C3: an account holds at most one open bet in any round.
AtMostOneOpenBet ==
    \A g \in GameIds : \A u \in DOMAIN users :
        Cardinality(OpenBets(activeGames[g], u)) <= 1

RECURSIVE SumTo(_, _)
SumTo(f, n) == IF n = 0 THEN 0 ELSE f[n] + SumTo(f, n - 1)

RECURSIVE SumOver(_, _)
SumOver(f, S) ==
    IF S = {} THEN 0
    ELSE LET x == CHOOSE y \in S : TRUE IN f[x] + SumOver(f, S \ {x})

\* the stakes debited for round g and the payouts credited for it
Staked(g) == SumTo([i \in DOMAIN Players(g) |-> Players(g)[i].bet * Milli], Len(Players(g)))
PaidOut(g) ==
    SumTo([i \in DOMAIN Players(g) |->
              IF Players(g)[i].cashedOut
              THEN Players(g)[i].bet * Players(g)[i].cashOutMultiplier ELSE 0],
          Len(Players(g)))
TotalBalance == SumOver([u \in DOMAIN users |-> users[u].balance], DOMAIN users)

\* C4: money is conserved: what the accounts hold is what they were opened with,
\* minus every stake debited at placement, plus stake x cash-out multiplier for
\* every cashed-out bet, round by round; ticks, round starts and settlement move
\* no money.
MoneyConserved ==
    TotalBalance =
        Cardinality(DOMAIN users) * InitialBalance * Milli
        - SumTo([g \in GameIds |-> Staked(g)], Cardinality(GameIds))
        + SumTo([g \in GameIds |-> PaidOut(g)], Cardinality(GameIds))

\* a settled round in which one account lost its stake and the other cashed out
\* above 1.00
SettledWithWinnerAndLoser ==
    \E g \in GameIds : \E i, j \in DOMAIN Players(g) :
        /\ ~activeGames[g].isRunning
        /\ Players(g)[i].username # Players(g)[j].username
        /\ Players(g)[i].cashedOut /\ Players(g)[i].cashOutMultiplier > Milli
        /\ ~Players(g)[j].cashedOut /\ Players(g)[j].profit < 0

\* an event that carries a crash point
ExposesCrashPoint(e) ==
    \/ "crashPoint" \in DOMAIN e
    \/ "game" \in DOMAIN e /\ "crashPoint" \in DOMAIN e.game

\* C5: no event sent before game_end carries the round's crash point.
CrashPointWithheld ==
    \A i \in DOMAIN emitted :
        ExposesCrashPoint(emitted[i]) => emitted[i].type = "game_end"

StartTimers == {t \in timers : t.kind = "start"}

\* C6: at most one round is running; a round is running exactly when no start
\* is pending, so no start is ever requested while a round is running.
OneRunningRound ==
    /\ Cardinality(RunningGames) <= 1
    /\ Cardinality(RunningGames) + Cardinality(StartTimers) = 1

\* the 30 s timeout of round 1 has just fired while round 2 is running
StaleTimeoutWhileRunning ==
    /\ lastOp.op = "ceiling" /\ lastOp.gameId = 1
    /\ 2 \in GameIds /\ activeGames[2].isRunning /\ ~activeGames[1].isRunning

\* C7: after every tick that leaves the round running (its multiplier m is below
\* the crash point), no open bet of that round names an auto-cash-out threshold
\* T <= m: the tick has cashed it out, so it cannot be lost at settlement.
AutoCashOutAtThreshold ==
    (lastOp.op = "tick" /\ CurrentGame.isRunning) =>
        \A i \in DOMAIN CurrentGame.players :
            (~CurrentGame.players[i].cashedOut
                /\ CurrentGame.players[i].cashOutMultiplier # Null)
            => CurrentGame.players[i].cashOutMultiplier > CurrentGame.multiplier

\* C8: a round that has ended holds its crash point as its multiplier, and
\* game_end reports it as finalMultiplier.
FinalMultiplierIsCrashPoint ==
    /\ \A g \in GameIds :
          ~activeGames[g].isRunning => activeGames[g].multiplier = activeGames[g].crashPoint
    /\ \A i \in DOMAIN emitted :
          emitted[i].type = "game_end" =>
              10 * emitted[i].finalMultiplier = emitted[i].crashPoint

GameRunning(g) == g \in GameIds /\ activeGames[g].isRunning

\* C9 as claimed: a stake below the minimum sent by an account that exists, for
\* a running round, is answered BelowMinimum whatever the balance.
BelowMinimumReported ==
    (/\ lastOp.op = "placeBet" /\ lastOp.amount < MinBet
     /\ lastOp.user \in DOMAIN users /\ GameRunning(lastOp.gameId))
    => lastOp.result = "BelowMinimum"

\* C9 as amended: a stake below the minimum is always rejected, changes no
\* account and no bet list and emits nothing; for an account that exists and a
\* running round the answer is BelowMinimum when the balance covers the stake
\* and InsufficientFunds when it does not.
SmallStakeRejected ==
    [][(lastOp'.op = "placeBet" /\ lastOp'.amount < MinBet) =>
          /\ lastOp'.result # "ok"
          /\ users' = users /\ activeGames' = activeGames /\ emitted' = <<>>
          /\ (lastOp'.user \in DOMAIN users /\ GameRunning(lastOp'.gameId)) =>
                lastOp'.result =
                    IF users[lastOp'.user].balance < lastOp'.amount * Milli
                    THEN "InsufficientFunds" ELSE "BelowMinimum"
      ]_vars

\* a stake of 5 refused for lack of funds: the balance is 3 after a bet of 997
SmallStakeOnLowBalance ==
    /\ lastOp.op = "placeBet" /\ lastOp.amount < MinBet
    /\ lastOp.result = "InsufficientFunds"
    /\ users[lastOp.user].balance < MinBet * Milli

\* C10: every running round ends: while it runs its multiplier is below its
\* crash point and no more than 30 s have passed since its start, and it
\* eventually stops running (at most one round runs at a time, and the next one
\* starts only after it has ended).
RoundsEnd ==
    /\ [](\A g \in RunningGames :
            /\ activeGames[g].multiplier < activeGames[g].crashPoint
            /\ now - activeGames[g].startTime <= MaxRoundMs)
    /\ (RunningGames # {}) ~> (RunningGames = {})

\* a round with an unreachable crash point has just been ended by its 30 s timeout
EndedByTimeout ==
    /\ lastOp.op = "ceiling"
    /\ \E i \in DOMAIN emitted :
          /\ emitted[i].type = "game_end" /\ emitted[i].gameId = lastOp.gameId
          /\ emitted[i].crashPoint > MultiplierAt(MaxRoundMs)

\* C11: a cash-out served at elapsed time t uses the multiplier of t: a cash-out
\* that succeeds pays the multiplier 1.0 + t x 0.05 of the instant it is served
\* at, and a cash-out served when that multiplier has reached the crash point
\* is refused, whether or not the tick of that instant has run.
CashOutReadsClock ==
    (/\ lastOp.op = "cashOut" /\ lastOp.user \in DOMAIN users
     /\ lastOp.gameId \in GameIds)
    => LET game == activeGames[lastOp.gameId]
           m == MultiplierAt(now - game.startTime)
       IN  /\ lastOp.result = "ok" => game.multiplier = m
           /\ m >= game.crashPoint => lastOp.result = "Unavailable"

EndedGames == {g \in GameIds : ~activeGames[g].isRunning}

\* C12: the history holds at most 100 records; it holds one record for each of
\* the most recently ended rounds (all of them while at most 100 have ended),
\* oldest first, in the order the rounds ended, each the summary of its round.
HistoryHoldsLatest ==
    LET n == Cardinality(EndedGames)
        len == Len(gameHistory)
    IN  /\ len <= HistoryCap
        /\ len = Min2(n, HistoryCap)
        /\ \A i \in 1..len :
              /\ (n - len + i) \in EndedGames
              /\ gameHistory[i] = HistoryRecord(activeGames[n - len + i])
        /\ \A i \in 1..(len - 1) : gameHistory[i].endTime <= gameHistory[i + 1].endTime

\* more than 100 rounds have ended: the history holds the last 100 of them and
\* a retrieval returns the 20 newest, newest first
HistoryPastCapacity ==
    /\ Cardinality(EndedGames) > HistoryCap
    /\ Len(gameHistory) = HistoryCap
    /\ gameHistory[1].id = Cardinality(EndedGames) - HistoryCap + 1
    /\ Len(GameHistoryResponse) = HistoryPage
    /\ GameHistoryResponse[1].id = Cardinality(EndedGames)

\* C13: the crash point of every round, whatever the 32-bit draw it was computed
\* from, lies in [1.01, 100.00] and is a whole number of hundredths, and no step
\* changes the crash point of a round that exists.
CrashPointInRangeAndFixed ==
    /\ [](\A g \in GameIds :
            /\ activeGames[g].crashPoint >= 10 * MinCrash
            /\ activeGames[g].crashPoint <= 10 * MaxCrash
            /\ activeGames[g].crashPoint % 10 = 0)
    /\ [][\A g \in GameIds : activeGames'[g].crashPoint = activeGames[g].crashPoint]_vars

\* a round drawn above the cap has run to its end with crash point 100.00
ClampedRoundEnded ==
    \E g \in GameIds :
        /\ ~activeGames[g].isRunning
        /\ activeGames[g].crashPoint = 10 * MaxCrash
        /\ activeGames[g].multiplier > Milli

\* the status of a bet: Open while its round runs and it is not cashed out,
\* CashedOut once cashed out, Lost when its round ended with it not cashed out
BetStatus(game, player) ==
    IF player.cashedOut THEN "CashedOut"
    ELSE IF game.isRunning THEN "Open" ELSE "Lost"

\* C14: a bet leaves Open at most once: a cashed-out bet stays cashed out at the
\* multiplier it was cashed out at and stays won (no step marks it lost or
\* cashes it out again), and a lost bet stays as settlement left it (no step
\* cashes it out); bets are never removed from their round.
BetLeavesOpenOnce ==
    [][\A g \in GameIds : \A i \in DOMAIN Players(g) :
          LET p == Players(g)[i]
              q == activeGames'[g].players[i]
          IN  /\ i \in DOMAIN activeGames'[g].players
              /\ BetStatus(activeGames[g], p) = "CashedOut" =>
                    /\ BetStatus(activeGames'[g], q) = "CashedOut"
                    /\ q.cashOutMultiplier = p.cashOutMultiplier
                    /\ q.won
              /\ BetStatus(activeGames[g], p) = "Lost" =>
                    /\ BetStatus(activeGames'[g], q) = "Lost"
                    /\ q = p
      ]_vars

\* a round has settled one bet of an account as cashed out and another as lost,
\* and a cash-out then sent for that round has been refused
CashOutAfterSettlementRefused ==
    /\ lastOp.op = "cashOut" /\ lastOp.result = "Unavailable"
    /\ lastOp.gameId \in GameIds
    /\ \E i, j \in DOMAIN Players(lastOp.gameId) :
          /\ Players(lastOp.gameId)[i].username = lastOp.user
          /\ BetStatus(activeGames[lastOp.gameId], Players(lastOp.gameId)[i]) = "Lost"
          /\ BetStatus(activeGames[lastOp.gameId], Players(lastOp.gameId)[j]) = "CashedOut"

\* C15: in a round that has ended, every bet not cashed out is not won and has
\* profit -stake, and every bet cashed out at multiplier x has profit
\* stake * x - stake, the value recorded when it was cashed out.
SettledProfits ==
    \A g \in EndedGames : \A i \in DOMAIN Players(g) :
        LET p == Players(g)[i]
        IN  IF p.cashedOut
            THEN p.profit = p.bet * p.cashOutMultiplier - p.bet * Milli
            ELSE p.profit = -(p.bet * Milli) /\ ~p.won

\* C16: every placeBet and cashOut that names a round that has ended is
\* rejected, and leaves every round (bet lists and bet statuses) and every
\* account unchanged and emits nothing.
EndedRoundRefuses ==
    [][(lastOp'.op \in {"placeBet", "cashOut"} /\ lastOp'.gameId \in EndedGames) =>
          /\ lastOp'.result # "ok"
          /\ users' = users /\ activeGames' = activeGames /\ emitted' = <<>>
      ]_vars

\* while round 2 is running, a bet on round 1, which has ended, has been refused
\* to an account that could pay the stake
BetOnEarlierRoundRefused ==
    /\ lastOp.op = "placeBet" /\ lastOp.result = "GameNotActive"
    /\ lastOp.gameId = 1 /\ 1 \in EndedGames /\ GameRunning(2)
    /\ lastOp.user \in DOMAIN users
    /\ lastOp.amount >= MinBet
    /\ users[lastOp.user].balance >= lastOp.amount * Milli

\* the rounds that stop running in the step
EndingGames == {g \in GameIds : activeGames[g].isRunning /\ ~activeGames'[g].isRunning}

\* C17: the step that ends a round schedules exactly one restart, due after the
\* cooldown, and restarts are scheduled by no other step; a round starts only
\* when no round is running, the cooldown after the end of the round before it;
\* and the cycle does not stall: while the environment has rounds left, a state
\* with no round running leads to a state with a round running.
RoundCycleRuns ==
    /\ [][/\ \A g \in EndingGames :
                StartTimers' \ StartTimers =
                    {[kind |-> "start", gameId |-> g, at |-> now + RestartMs]}
          /\ EndingGames = {} => StartTimers' \subseteq StartTimers
          /\ \A g \in DOMAIN activeGames' \ GameIds :
                /\ RunningGames = {}
                /\ g > 1 => now = activeGames[g - 1].endTime + RestartMs
         ]_vars
    /\ (RunningGames = {} /\ Cardinality(GameIds) < env.rounds) ~> (RunningGames # {})

\* round 2 has just started, the cooldown after round 1 ended
RestartedAfterCooldown ==
    /\ lastOp.op = "start" /\ GameRunning(2)
    /\ activeGames[2].startTime = activeGames[1].endTime + RestartMs
    /\ now = activeGames[2].startTime

\* C18: the balance of every account is a number and is not negative.
BalancesNonNegative ==
    \A u \in DOMAIN users : users[u].balance # NaN /\ users[u].balance >= 0

\* the events of type `type` that carry round g, among the events `events`
EventsOf(events, type, g) ==
    {i \in DOMAIN events : events[i].type = type /\ events[i].gameId = g}

\* C19: the events of a round are well ordered: game_start is emitted by the
\* step that creates the round, so before every other event that carries its
\* identifier; game_update, new_bet and cash_out are emitted only for a round
\* that is running before and after the step; game_end is emitted once by the
\* step that ends the round, whether a tick or the timeout ends it, and a round
\* that has ended never runs again, so nothing follows its game_end.
EventsWellOrdered ==
    [][/\ \A i \in DOMAIN emitted' :
            LET e == emitted'[i]
            IN  /\ e.type = "game_start" =>
                      e.gameId \notin GameIds /\ e.gameId \in DOMAIN activeGames'
                /\ e.type \in {"game_update", "new_bet", "cash_out"} =>
                      GameRunning(e.gameId) /\ activeGames'[e.gameId].isRunning
                /\ e.type = "game_end" => e.gameId \in EndingGames
       /\ \A g \in DOMAIN activeGames' \ GameIds :
            Cardinality(EventsOf(emitted', "game_start", g)) = 1
       /\ \A g \in EndingGames :
            /\ Cardinality(EventsOf(emitted', "game_end", g)) = 1
            /\ lastOp'.op \in {"tick", "ceiling"}
       /\ \A g \in EndedGames : ~activeGames'[g].isRunning
      ]_vars

\* the 30 s timeout has just ended a round in which a bet was placed and cashed
\* out, and has emitted its game_end
BetRoundEndedByTimeout ==
    /\ lastOp.op = "ceiling"
    /\ \E i \in DOMAIN emitted :
          /\ emitted[i].type = "game_end"
          /\ \E j \in DOMAIN emitted[i].players : emitted[i].players[j].cashedOut

\* C20: a timer acts on the round it was created for only: a tick or timeout
\* callback leaves every other round as it was and emits no event for another
\* round; when its own round has ended it changes no round, emits nothing and
\* schedules nothing; so a round is ended only by its own tick, on reaching its
\* crash point, or by its own timeout, 30 s after its start.
TimersKeepToTheirRound ==
    [][/\ lastOp'.op \in {"tick", "ceiling"} =>
             /\ \A g \in GameIds \ {lastOp'.gameId} : activeGames'[g] = activeGames[g]
             /\ \A i \in DOMAIN emitted' : emitted'[i].gameId = lastOp'.gameId
             /\ ~GameRunning(lastOp'.gameId) =>
                   /\ activeGames' = activeGames /\ gameHistory' = gameHistory
                   /\ emitted' = <<>> /\ StartTimers' = StartTimers
       /\ \A g \in EndingGames :
             /\ lastOp'.gameId = g
             /\ \/ /\ lastOp'.op = "tick"
                   /\ activeGames'[g].multiplier >= activeGames[g].crashPoint
                \/ /\ lastOp'.op = "ceiling"
                   /\ now - activeGames[g].startTime >= MaxRoundMs
      ]_vars

\* round 2 has just been ended by its own timeout, 30 s after its start; the
\* timeout of round 1 fired while round 2 was running and left it running
OutlivedEarlierTimeout ==
    /\ lastOp.op = "ceiling" /\ lastOp.gameId = 2
    /\ 1 \in EndedGames /\ 2 \in EndedGames
    /\ activeGames[2].endTime = activeGames[2].startTime + MaxRoundMs
    /\ activeGames[2].startTime < activeGames[1].startTime + MaxRoundMs
    /\ \A t \in timers : ~(t.kind = "ceiling" /\ t.gameId = 1)

====
